---- MODULE Spec2Model ----
(***************************************************************************)
(* Model of the Ducobox connector (custom_components/                      *)
(* duco_ventilation_sun_control): the value transforms of common.py, the   *)
(* entity creation of sensor.py and select.py, and the run-time behaviour  *)
(* of the entities over the coordinator's snapshot.                        *)
(*                                                                         *)
(* Python values are tagged records: None, int, bool, str (a sequence of   *)
(* one-character strings), float (an exact rational n/d in lowest terms).  *)
(* A raised exception is the outcome [t |-> "raise", v |-> <its class>].   *)
(* A dict is a function from keys to values; an absent key is a key that   *)
(* is not in its DOMAIN.                                                   *)
(***************************************************************************)
EXTENDS Integers, Sequences, FiniteSets, TLC

VARIABLES
    fn, raw, out,             \* the transform applied, its input, its outcome
    data,                     \* coordinator.data: the snapshot served to entities
    sensorSetup,              \* outcome of sensor.async_setup_entry ("pending" first)
    selectSetup,              \* outcome of select.async_setup_entry ("pending" first)
    resp,                     \* the device's answers to get_actions_node, per node position
    coord,                    \* per platform, its coordinator: data and last_update_success
    lastGood,                 \* per platform, the result of its latest successful poll
    reading,                  \* the entity read last, and the value it computed
    request,                  \* the async_select_option call in progress, and where it is
    trace,                    \* what that call has done so far, in order
    refresh_requested,        \* the select coordinator has a refresh request pending
    flow,                     \* the config flow in progress: its step and last result
    entries                   \* the config entries created

xfVars == <<fn, raw, out>>
setupVars == <<data, sensorSetup, selectSetup, resp>>
runVars == <<coord, lastGood, reading, request, trace, refresh_requested>>
flowVars == <<flow, entries>>
vars == <<fn, raw, out, data, sensorSetup, selectSetup, resp,
          coord, lastGood, reading, request, trace, refresh_requested,
          flow, entries>>

----------------------------------------------------------------------------
(* Python values *)

PyNone == [t |-> "none"]
PyInt(i) == [t |-> "int", v |-> i]
PyBool(b) == [t |-> "bool", v |-> b]
PyStr(s) == [t |-> "str", v |-> s]
Raise(cls) == [t |-> "raise", v |-> cls]

Abs(i) == IF i < 0 THEN -i ELSE i

RECURSIVE Gcd(_, _)
Gcd(a, b) == IF b = 0 THEN a ELSE Gcd(b, a % b)

\* The float n/d, kept as the exact rational in lowest terms with d > 0.
PyFloat(n, d) ==
    LET s == IF d < 0 THEN -1 ELSE 1
        g == Gcd(Abs(n), Abs(d))
    IN  [t |-> "float", n |-> (s * n) \div g, d |-> (s * d) \div g]

IsNumber(value) == value.t \in {"int", "bool", "float"}

\* A number as the pair <<numerator, denominator>>; True is 1, False is 0.
NumOf(value) ==
    CASE value.t = "int"   -> <<value.v, 1>>
      [] value.t = "bool"  -> <<IF value.v THEN 1 ELSE 0, 1>>
      [] value.t = "float" -> <<value.n, value.d>>

\* Python's truth value of an object.
Truthy(value) ==
    CASE value.t = "none"  -> FALSE
      [] value.t = "int"   -> value.v # 0
      [] value.t = "bool"  -> value.v
      [] value.t = "str"   -> Len(value.v) > 0
      [] value.t = "float" -> value.n # 0

\* a / b (true division) of a value by a number.
TrueDiv(value, b) ==
    IF ~IsNumber(value) THEN Raise("TypeError")
    ELSE PyFloat(NumOf(value)[1] * b[2], NumOf(value)[2] * b[1])

\* a * b of a float by a number.
Mul(value, b) ==
    IF value.t = "raise" THEN value
    ELSE PyFloat(NumOf(value)[1] * b[1], NumOf(value)[2] * b[2])

\* floor(n / d) for d > 0 (\div rounds towards minus infinity).
Floor(n, d) == n \div d

\* round(x) of a float: the nearest integer, a tie going to the even one.
Round(value) ==
    IF value.t = "raise" THEN value
    ELSE LET n == value.n
             d == value.d
             lo == Floor(n, d)
             twice == 2 * (n - lo * d)     \* 2 * fractional part * d
         IN  PyInt(CASE twice < d -> lo
                     [] twice > d -> lo + 1
                     [] OTHER     -> IF lo % 2 = 0 THEN lo ELSE lo + 1)

\* Floor division, the result kept as Python keeps it for whole operands.
FloorDivInt(value, b) ==
    IF ~IsNumber(value) THEN Raise("TypeError")
    ELSE PyInt(Floor(NumOf(value)[1], NumOf(value)[2] * b))

----------------------------------------------------------------------------
(* dicts, and the str and int conversions the entity creation uses *)

EmptyDict == [k \in {} |-> PyNone]

\* d.get(k, default)
Get(d, k, default) == IF k \in DOMAIN d THEN d[k] ELSE default

\* d.get(a, {}).get(b, {}).get(c, default)
Get3(d, a, b, c, default) ==
    Get(Get(Get(d, a, EmptyDict), b, EmptyDict), c, default)

\* d.get(a, {}).get(b, {}).get(c, {}).get(e, default)
Get4(d, a, b, c, e, default) ==
    Get(Get(Get(Get(d, a, EmptyDict), b, EmptyDict), c, EmptyDict), e, default)

\* A dict (or any value that is not one of the tagged scalars) is unhashable.
IsScalar(value) == "t" \in DOMAIN value

DigitChars == <<"0", "1", "2", "3", "4", "5", "6", "7", "8", "9">>

IsDigit(c) == \E i \in 1..10 : DigitChars[i] = c

DigitVal(c) == (CHOOSE i \in 1..10 : DigitChars[i] = c) - 1

RECURSIVE Digits(_)
Digits(i) ==
    IF i < 10 THEN <<DigitChars[i + 1]>>
    ELSE Digits(i \div 10) \o <<DigitChars[(i % 10) + 1]>>

\* The text an f-string puts for {value}.
Format(value) ==
    CASE value.t = "none" -> <<"N", "o", "n", "e">>
      [] value.t = "int"  -> IF value.v < 0 THEN <<"-">> \o Digits(-value.v)
                             ELSE Digits(value.v)
      [] value.t = "str"  -> value.v

IsSpace(c) == c = " "

RECURSIVE LStrip(_)
LStrip(s) == IF Len(s) > 0 /\ IsSpace(Head(s)) THEN LStrip(Tail(s)) ELSE s

RECURSIVE RStrip(_)
RStrip(s) ==
    IF Len(s) > 0 /\ IsSpace(s[Len(s)]) THEN RStrip(SubSeq(s, 1, Len(s) - 1)) ELSE s

\* s.strip()
Strip(s) == RStrip(LStrip(s))

RECURSIVE DigitsValue(_)
DigitsValue(s) ==
    IF Len(s) = 0 THEN 0
    ELSE 10 * DigitsValue(SubSeq(s, 1, Len(s) - 1)) + DigitVal(s[Len(s)])

\* int(value): the int itself, the number a (stripped, optionally signed)
\* digit string denotes, ValueError for any other string, TypeError for None
\* and for a dict.
PyIntOf(value) ==
    IF ~IsScalar(value) THEN Raise("TypeError")
    ELSE CASE value.t = "none" -> Raise("TypeError")
           [] value.t = "int"  -> value
           [] value.t = "bool" -> PyInt(IF value.v THEN 1 ELSE 0)
           [] value.t = "str"  ->
                LET s == Strip(value.v)
                    neg == Len(s) > 0 /\ Head(s) = "-"
                    body == IF Len(s) > 0 /\ Head(s) \in {"-", "+"} THEN Tail(s) ELSE s
                IN  IF Len(body) > 0 /\ \A i \in 1..Len(body) : IsDigit(body[i])
                    THEN PyInt(IF neg THEN -DigitsValue(body) ELSE DigitsValue(body))
                    ELSE Raise("ValueError")

\* s.replace(old, "") for a one-character old.
RECURSIVE RemoveChar(_, _)
RemoveChar(s, c) ==
    IF Len(s) = 0 THEN s
    ELSE (IF Head(s) = c THEN << >> ELSE <<Head(s)>>) \o RemoveChar(Tail(s), c)

----------------------------------------------------------------------------
(* str.title() over a small alphabet *)

Lowers == {"a", "b", "o", "k"}
Uppers == {"A", "B", "O", "K"}
Others == {" ", "-", "1"}
Chars == Lowers \cup Uppers \cup Others

Upper(c) ==
    CASE c = "a" -> "A" [] c = "b" -> "B" [] c = "o" -> "O" [] c = "k" -> "K"
      [] OTHER -> c

Lower(c) ==
    CASE c = "A" -> "a" [] c = "B" -> "b" [] c = "O" -> "o" [] c = "K" -> "k"
      [] OTHER -> c

IsCased(c) == c \in Lowers \cup Uppers

\* s.title(): a cased character is upper-cased when the character before it
\* is not cased (or there is none), and lower-cased otherwise.
Title(s) ==
    [i \in 1..Len(s) |->
        IF i > 1 /\ IsCased(s[i - 1]) THEN Lower(s[i]) ELSE Upper(s[i])]

StrTitle(value) ==
    IF value.t = "str" THEN PyStr(Title(value.v)) ELSE Raise("AttributeError")

\* s.lower()
StrLower(s) == [i \in 1..Len(s) |-> Lower(s[i])]

\* s.capitalize()
StrCapitalize(s) ==
    [i \in 1..Len(s) |-> IF i = 1 THEN Upper(s[i]) ELSE Lower(s[i])]

----------------------------------------------------------------------------
(* common.py *)

ByteMax == 255
TenthsPerDegree == 10
PercentMax == 100

_process_node_temperature(value) == IF value # PyNone THEN value ELSE PyNone

_process_node_humidity(value) == IF value # PyNone THEN value ELSE PyNone

_process_node_co2(value) == IF value # PyNone THEN value ELSE PyNone

_process_node_iaq(value) == IF value # PyNone THEN value ELSE PyNone

Mutant_process_temperature(value) ==
    IF value # PyNone THEN FloorDivInt(value, TenthsPerDegree) ELSE PyNone

_process_temperature(value) ==
    IF value # PyNone THEN TrueDiv(value, <<TenthsPerDegree, 1>>) ELSE PyNone

_process_speed(value) == IF value # PyNone THEN value ELSE PyNone

_process_pressure(value) == IF value # PyNone THEN value ELSE PyNone

_process_rssi(value) == IF value # PyNone THEN value ELSE PyNone

_process_uptime(value) == IF value # PyNone THEN value ELSE PyNone

_process_timefilterremain(value) == IF value # PyNone THEN value ELSE PyNone

\* int(x) in place of round(x): truncation.
Mutant_process_bypass_position(value) ==
    IF value # PyNone
    THEN LET x == Mul(TrueDiv(value, <<ByteMax, 1>>), <<PercentMax, 1>>)
         IN  IF x.t = "raise" THEN x
             ELSE PyInt(IF x.n >= 0 THEN Floor(x.n, x.d) ELSE -Floor(-x.n, x.d))
    ELSE PyNone

\* round((value / 255) * 100).  The two float operations are modelled exactly:
\* for a byte b the distance of 100*b/255 from the nearest half-integer is at
\* least 1/102 (see BypassFarFromTie), far more than the rounding error of the
\* two double operations, so round() sees the same side of every tie.
_process_bypass_position(value) ==
    IF value # PyNone
    THEN Round(Mul(TrueDiv(value, <<ByteMax, 1>>), <<PercentMax, 1>>))
    ELSE PyNone

_process_network_status(value) ==
    IF value # PyNone THEN StrTitle(value) ELSE PyNone

_process_calibration_status(value) ==
    IF value # PyNone
    THEN IF Truthy(value) THEN PyStr(<<"V", "a", "l", "i", "d">>)
         ELSE PyStr(<<"I", "n", "v", "a", "l", "i", "d">>)
    ELSE PyNone

_process_calibration_state(value) ==
    IF value # PyNone THEN StrTitle(value) ELSE PyNone

TransformNames ==
    {"_process_node_temperature", "_process_node_humidity", "_process_node_co2",
     "_process_node_iaq", "_process_temperature", "_process_speed",
     "_process_pressure", "_process_rssi", "_process_uptime",
     "_process_timefilterremain", "_process_bypass_position",
     "_process_network_status", "_process_calibration_status",
     "_process_calibration_state"}

\* The call f(value) of the transform named f.
CallTransform(f, value) ==
    CASE f = "_process_node_temperature"   -> _process_node_temperature(value)
      [] f = "_process_node_humidity"      -> _process_node_humidity(value)
      [] f = "_process_node_co2"           -> _process_node_co2(value)
      [] f = "_process_node_iaq"           -> _process_node_iaq(value)
      [] f = "_process_temperature"        -> _process_temperature(value)
      [] f = "_process_speed"              -> _process_speed(value)
      [] f = "_process_pressure"           -> _process_pressure(value)
      [] f = "_process_rssi"               -> _process_rssi(value)
      [] f = "_process_uptime"             -> _process_uptime(value)
      [] f = "_process_timefilterremain"   -> _process_timefilterremain(value)
      [] f = "_process_bypass_position"    -> _process_bypass_position(value)
      [] f = "_process_network_status"     -> _process_network_status(value)
      [] f = "_process_calibration_status" -> _process_calibration_status(value)
      [] f = "_process_calibration_state"  -> _process_calibration_state(value)

----------------------------------------------------------------------------
(* const.py and the descriptor tables (comm_boards.py, network.py, nodes.py, *)
(* boxes.py, calibration.py): a descriptor is a key, a path into the        *)
(* snapshot (or into the node record) and the transform applied to the      *)
(* value found there.                                                       *)

DomainName == "duco_ventilation_sun_control"
Manufacturer == "Duco"

BOX == PyStr(<<"B", "O", "X">>)
UC == PyStr(<<"U", "C">>)
VLV == PyStr(<<"V", "L", "V">>)
Unknown == PyStr(<<"U", "n", "k", "n", "o", "w", "n">>)

Desc(key, path, f) == [key |-> key, path |-> path, value_fn |-> f]

COMMBOARD_SENSORS ==
    <<Desc("rssi_wifi", <<"General", "Lan", "RssiWifi", "Val">>, "_process_rssi")>>

DUCONETWORK_SENSORS ==
    <<Desc("network_status", <<"NetworkDuco", "CommErrorCtr", "Val">>, "_process_network_status")>>

CALIBRATION_SENSORS ==
    <<Desc("calibration_status", <<"Calibration", "Valid", "Val">>, "_process_calibration_status")>>

\* BOX_SENSORS[box_name], an empty list standing for "box_name not in BOX_SENSORS".
BOX_SENSORS(box_name) ==
    IF box_name = PyStr(<<"b", "o">>)
    THEN <<Desc("temperature_oda", <<"Sensor", "TempOda", "Val">>, "_process_temperature")>>
    ELSE << >>

\* NODE_SENSORS.get(node_type, [])
NODE_SENSORS(node_type) ==
    IF node_type \in {VLV, UC}
    THEN <<Desc("temperature", <<"Sensor", "Temp", "Val">>, "_process_node_temperature")>>
    ELSE << >>

\* The value at a path: d.get(k1, {}).get(k2, {}) ... .get(kn).
RECURSIVE Walk(_, _)
Walk(d, path) ==
    IF Len(path) = 1 THEN Get(d, path[1], PyNone)
    ELSE Walk(Get(d, path[1], EmptyDict), Tail(path))

\* The data-flow of section 2: device -> snapshot -> value function.
SensorValueFn(description, snapshot) ==
    CallTransform(description.value_fn, Walk(snapshot, description.path))

NodeValueFn(description, arg) ==
    CallTransform(description.value_fn, Walk(arg.node_data, description.path))

----------------------------------------------------------------------------
(* sensor.py: entity creation *)

Ref(id) == [domain |-> DomainName, id |-> id]

\* f"{device_id}-{node_id}" and f"{node_device_id}-{description.key}"
NodeDeviceId(device_id, node_id) == device_id \o <<"-">> \o Format(node_id)

NodeType(node) == Get3(node, "General", "Type", "Val", Unknown)

RECURSIVE find_box_addr(_)
find_box_addr(nodes) ==
    IF Len(nodes) = 0 THEN PyNone
    ELSE IF Get3(Head(nodes), "General", "Type", "Val", PyNone) = BOX
         THEN Get(Get(Head(nodes), "General", EmptyDict), "Addr", PyNone)
         ELSE find_box_addr(Tail(nodes))

get_mac_address(coordinator_data) ==
    Get4(coordinator_data, "General", "Lan", "Mac", "Val", PyNone)

\* mac_address.replace(":", "").lower()
DeviceIdOf(mac_address) == StrLower(RemoveChar(mac_address.v, ":"))

create_device_info(coordinator_data, device_id) ==
    [identifiers |-> Ref(device_id),
     name |-> Get4(coordinator_data, "General", "Lan", "HostName", "Val", Unknown),
     manufacturer |-> Manufacturer,
     model |-> Get4(coordinator_data, "General", "Board", "CommSubTypeName", "Val", Unknown),
     via_device |-> PyNone]

DucoboxSensorEntity(description, device_info, unique_id) ==
    [cls |-> "DucoboxSensorEntity", entity_description |-> description,
     device_info |-> device_info, unique_id |-> unique_id]

DucoboxNodeSensorEntity(node_id, description, device_info, unique_id) ==
    [cls |-> "DucoboxNodeSensorEntity", node_id |-> node_id,
     entity_description |-> description,
     device_info |-> device_info, unique_id |-> unique_id]

create_main_sensors(coordinator_data, device_info, device_id) ==
    [i \in 1..Len(COMMBOARD_SENSORS) |->
        DucoboxSensorEntity(COMMBOARD_SENSORS[i], device_info,
                            device_id \o <<"-">> \o <<COMMBOARD_SENSORS[i].key>>)]

create_box_sensors(coordinator_data, node, node_device_id, device_id) ==
    LET box_name == Get4(coordinator_data, "General", "Board", "BoxName", "Val", PyStr(<< >>))
        box_device_info ==
            [identifiers |-> Ref(node_device_id), name |-> box_name,
             manufacturer |-> Manufacturer, model |-> box_name,
             via_device |-> Ref(device_id)]
        descriptions == BOX_SENSORS(box_name) \o DUCONETWORK_SENSORS \o CALIBRATION_SENSORS
    IN  [i \in 1..Len(descriptions) |->
            DucoboxNodeSensorEntity(Get(node, "Node", PyNone), descriptions[i],
                box_device_info, node_device_id \o <<"-">> \o <<descriptions[i].key>>)]

create_generic_node_sensors(node, node_device_id, node_type, via_device_id) ==
    LET node_device_info ==
            [identifiers |-> Ref(node_device_id), name |-> node_type,
             manufacturer |-> Manufacturer, model |-> node_type,
             via_device |-> Ref(via_device_id)]
        descriptions == NODE_SENSORS(node_type)
    IN  [i \in 1..Len(descriptions) |->
            DucoboxNodeSensorEntity(Get(node, "Node", PyNone), descriptions[i],
                node_device_info, node_device_id \o <<"-">> \o <<descriptions[i].key>>)]

\* A dict as the sequence of its <<key, value>> items; a later item for the
\* same key replaces the earlier one.
RECURSIVE DictLookup(_, _, _)
DictLookup(items, key, default) ==
    IF Len(items) = 0 THEN default
    ELSE IF items[Len(items)][1] = key THEN items[Len(items)][2]
         ELSE DictLookup(SubSeq(items, 1, Len(items) - 1), key, default)

\* The first loop of create_node_sensors: the box devices and their sensors.
RECURSIVE BoxPass(_, _, _)
BoxPass(coordinator_data, device_id, nodes) ==
    IF Len(nodes) = 0 THEN [box_device_ids |-> << >>, entities |-> << >>]
    ELSE LET node == Head(nodes)
             rest == BoxPass(coordinator_data, device_id, Tail(nodes))
         IN  IF NodeType(node) = BOX
             THEN LET node_id == Get(node, "Node", PyNone)
                      node_device_id == NodeDeviceId(device_id, node_id)
                  IN  [box_device_ids |-> <<<<node_id, node_device_id>>>> \o rest.box_device_ids,
                       entities |-> create_box_sensors(coordinator_data, node,
                                        node_device_id, device_id) \o rest.entities]
             ELSE rest

\* box_device_ids.get(parent_box_id) with the default dropped: no link at all
\* when the box is not found.
MutantSensorViaDeviceId(box_device_ids, parent_box_id, device_id) ==
    IF ~IsScalar(parent_box_id) THEN Raise("TypeError")
    ELSE PyStr(DictLookup(box_device_ids, parent_box_id, <<"N", "o", "n", "e">>))

\* via_device_id = box_device_ids.get(parent_box_id, device_id); an unhashable
\* key makes dict.get raise TypeError.
SensorViaDeviceId(box_device_ids, parent_box_id, device_id) ==
    IF ~IsScalar(parent_box_id) THEN Raise("TypeError")
    ELSE PyStr(DictLookup(box_device_ids, parent_box_id, device_id))

IsRaise(x) == x.t = "raise"
Ok(x) == [t |-> "ok", v |-> x]

\* The second loop of create_node_sensors: the sensors of the other nodes,
\* or the exception that ends the loop.
RECURSIVE NodePass(_, _, _, _)
NodePass(all_nodes, nodes, box_device_ids, device_id) ==
    IF Len(nodes) = 0 THEN Ok(<< >>)
    ELSE LET node == Head(nodes)
             node_id == Get(node, "Node", PyNone)
             node_type == NodeType(node)
             parent_box_id == find_box_addr(all_nodes)
         IN  IF node_type # BOX /\ node_type # UC
             THEN LET via_device_id ==
                          SensorViaDeviceId(box_device_ids, parent_box_id, device_id)
                      rest == NodePass(all_nodes, Tail(nodes), box_device_ids, device_id)
                  IN  IF IsRaise(via_device_id) THEN via_device_id
                      ELSE IF IsRaise(rest) THEN rest
                      ELSE Ok(create_generic_node_sensors(node,
                               NodeDeviceId(device_id, node_id), node_type,
                               via_device_id.v) \o rest.v)
             ELSE NodePass(all_nodes, Tail(nodes), box_device_ids, device_id)

\* create_node_sensors: [box_device_ids, entities], or the exception raised.
create_node_sensors(coordinator_data, device_id) ==
    LET nodes == Get(coordinator_data, "Nodes", << >>)
        boxes == BoxPass(coordinator_data, device_id, nodes)
        others == NodePass(nodes, nodes, boxes.box_device_ids, device_id)
    IN  IF IsRaise(others) THEN others
        ELSE [t |-> "ok", box_device_ids |-> boxes.box_device_ids,
              entities |-> boxes.entities \o others.v]

Returned(entities) == [status |-> "ok", entities |-> entities]
Raised(exc) == [status |-> "raise", error |-> exc.v]
Pending == [status |-> "pending"]

\* sensor.async_setup_entry after the first refresh has filled coordinator.data:
\* the entities handed to async_add_entities, or the exception that escapes.
sensor_async_setup_entry(coordinator_data) ==
    LET mac_address == get_mac_address(coordinator_data)
    IN  IF ~Truthy(mac_address) THEN Returned(<< >>)
        ELSE LET device_id == DeviceIdOf(mac_address)
                 device_info == create_device_info(coordinator_data, device_id)
                 main == create_main_sensors(coordinator_data, device_info, device_id)
                 node_sensors == create_node_sensors(coordinator_data, device_id)
             IN  IF IsRaise(node_sensors) THEN Raised(node_sensors)
                 ELSE Returned(main \o node_sensors.entities)

----------------------------------------------------------------------------
(* select.py: entity creation *)

SetVentilationState == "SetVentilationState"

PyList(items) == [t |-> "list", v |-> items]

\* get_box_device_ids: the items of box_ids, or the exception int() raises.
RECURSIVE get_box_device_ids(_, _)
get_box_device_ids(device_id, nodes) ==
    IF Len(nodes) = 0 THEN Ok(<< >>)
    ELSE LET node == Head(nodes)
         IN  IF Get3(node, "General", "Type", "Val", PyNone) = BOX
             THEN LET node_id == PyIntOf(Get(node, "Node", PyNone))
                      rest == get_box_device_ids(device_id, Tail(nodes))
                  IN  IF IsRaise(node_id) THEN node_id
                      ELSE IF IsRaise(rest) THEN rest
                      ELSE Ok(<<<<node_id, NodeDeviceId(device_id, node_id)>>>> \o rest.v)
             ELSE get_box_device_ids(device_id, Tail(nodes))

\* try: parent_box_id = int(parent_val)  except (TypeError, ValueError): None
ParentBoxId(node) ==
    LET parent_val == Get3(node, "General", "Parent", "Val", PyNone)
        parent_box_id == PyIntOf(parent_val)
    IN  IF IsRaise(parent_box_id) THEN PyNone ELSE parent_box_id

\* via_device_id = box_device_ids.get(parent_box_id)
\* via_device = (DOMAIN, via_device_id) if via_device_id else None
SelectViaDevice(box_device_ids, parent_box_id) ==
    LET via_device_id == DictLookup(box_device_ids, parent_box_id, << >>)
    IN  IF Len(via_device_id) > 0 THEN Ref(via_device_id) ELSE PyNone

\* next((a for a in Actions if a.Action == "SetVentilationState"
\*       and hasattr(a, "Enum")), None)
RECURSIVE VentilationAction(_)
VentilationAction(actions) ==
    IF Len(actions) = 0 THEN PyNone
    ELSE IF Head(actions).Action = SetVentilationState /\ "Enum" \in DOMAIN Head(actions)
         THEN Head(actions)
         ELSE VentilationAction(Tail(actions))

\* The check with its second half lost: an empty Enum no longer skips the node.
MutantNoUsableEnum(ventilation_action) == ventilation_action = PyNone

\* if not ventilation_action or not ventilation_action.Enum: continue
NoUsableEnum(ventilation_action) ==
    \/ ventilation_action = PyNone
    \/ ventilation_action.Enum = PyNone
    \/ Len(ventilation_action.Enum.v) = 0

\* [opt.strip() for opt in ventilation_action.Enum if isinstance(opt, str)]
RECURSIVE StrippedOptions(_)
StrippedOptions(enum) ==
    IF Len(enum) = 0 THEN << >>
    ELSE (IF Head(enum).t = "str" THEN <<Strip(Head(enum).v)>> ELSE << >>)
         \o StrippedOptions(Tail(enum))

DucoboxModeSelect(device_info, unique_id, node_id, options) ==
    [cls |-> "DucoboxModeSelect", device_info |-> device_info,
     unique_id |-> unique_id, node_id |-> node_id, options |-> options]

Unbound == [t |-> "unbound"]

\* The handler turned into one that gives up on the remaining nodes.
MutantExceptWarning(acc) == [acc EXCEPT !.stop = TRUE]

\* except Exception as e: _LOGGER.warning(...); the loop goes on.
ExceptWarning(acc) == acc

\* One iteration of the loop of create_select_entities.  acc holds the list
\* of entities so far and the function's local `model`, which is unbound
\* until an iteration for a BOX node assigns it.
SelectIteration(coordinator_data, device_id, box_device_ids, node, response, acc) ==
    LET node_id == Get(node, "Node", PyNone)
        node_type == NodeType(node)
        mode == Get(Get(node, "Ventilation", EmptyDict), "Mode", PyNone)
        via_device == SelectViaDevice(box_device_ids, ParentBoxId(node))
    IN  IF mode = PyNone \/ mode = PyStr(<<"-">>) THEN acc
        ELSE IF IsRaise(response) THEN ExceptWarning(acc)
        ELSE LET ventilation_action == VentilationAction(response.Actions)
             IN  IF NoUsableEnum(ventilation_action) THEN acc
                 ELSE LET box_name == Get4(coordinator_data, "General", "Board",
                                           "BoxName", "Val", Unknown)
                          capitalize_raises == node_type = BOX /\ box_name.t # "str"
                          model == IF node_type = BOX THEN node_type ELSE acc.model
                          \* iterating over an Enum that is no list raises TypeError
                          enum_raises == ventilation_action.Enum.t # "list"
                          node_device_id == NodeDeviceId(device_id, node_id)
                          device_info ==
                              [identifiers |-> Ref(node_device_id), name |-> node_type,
                               manufacturer |-> Manufacturer, model |-> model,
                               via_device |-> via_device]
                          entity ==
                              DucoboxModeSelect(device_info,
                                  node_device_id \o <<"-select-ventilation_mode">>,
                                  node_id,
                                  IF enum_raises THEN << >>
                                  ELSE StrippedOptions(ventilation_action.Enum.v))
                      IN  IF capitalize_raises \/ enum_raises THEN ExceptWarning(acc)
                          ELSE IF model = Unbound
                          THEN ExceptWarning(acc)
                          ELSE [acc EXCEPT !.model = model,
                                           !.entities = Append(@, entity)]

RECURSIVE SelectLoop(_, _, _, _, _, _)
SelectLoop(coordinator_data, device_id, box_device_ids, nodes, responses, acc) ==
    IF Len(nodes) = 0 \/ acc.stop THEN acc
    ELSE SelectLoop(coordinator_data, device_id, box_device_ids, Tail(nodes),
             Tail(responses),
             SelectIteration(coordinator_data, device_id, box_device_ids,
                             Head(nodes), Head(responses), acc))

\* create_select_entities: the list of entities it returns.  responses[i] is
\* what get_actions_node does when called for nodes[i].
create_select_entities(coordinator_data, device_id, nodes, box_device_ids, responses) ==
    SelectLoop(coordinator_data, device_id, box_device_ids, nodes, responses,
               [entities |-> << >>, model |-> Unbound, stop |-> FALSE]).entities

\* select.async_setup_entry after the first refresh.
select_async_setup_entry(coordinator_data, responses) ==
    LET mac_address == get_mac_address(coordinator_data)
    IN  IF ~Truthy(mac_address) THEN Returned(<< >>)
        ELSE LET device_id == DeviceIdOf(mac_address)
                 nodes == Get(coordinator_data, "Nodes", << >>)
                 box_device_ids == get_box_device_ids(device_id, nodes)
             IN  IF IsRaise(box_device_ids) THEN Raised(box_device_ids)
                 ELSE Returned(create_select_entities(coordinator_data, device_id,
                                   nodes, box_device_ids.v, responses))

----------------------------------------------------------------------------
(* The entities at run time *)

\* DucoboxSensorEntity.native_value
DucoboxSensorEntity_native_value(entity, coordinator_data) ==
    SensorValueFn(entity.entity_description, coordinator_data)

\* A loop that stops at the first node whatever its id.
RECURSIVE MutantNodeLookup(_, _, _)
MutantNodeLookup(entity, nodes, coordinator_data) ==
    IF Len(nodes) = 0 THEN PyNone
    ELSE NodeValueFn(entity.entity_description,
                     [node_data |-> Head(nodes), general_data |-> coordinator_data])

\* for node in nodes: if node.get("Node") == self._node_id: return value_fn(...)
RECURSIVE NodeLookup(_, _, _)
NodeLookup(entity, nodes, coordinator_data) ==
    IF Len(nodes) = 0 THEN PyNone
    ELSE IF Get(Head(nodes), "Node", PyNone) = entity.node_id
         THEN NodeValueFn(entity.entity_description,
                          [node_data |-> Head(nodes), general_data |-> coordinator_data])
         ELSE NodeLookup(entity, Tail(nodes), coordinator_data)

\* A value taken from the node at the head of the list, whatever its id.
MutantNodeSensorNativeValue(entity, coordinator_data) ==
    LET nodes == Get(coordinator_data, "Nodes", << >>)
    IN  IF Len(nodes) = 0 THEN PyNone
        ELSE NodeValueFn(entity.entity_description,
                         [node_data |-> nodes[1], general_data |-> coordinator_data])

\* DucoboxNodeSensorEntity.native_value
DucoboxNodeSensorEntity_native_value(entity, coordinator_data) ==
    NodeLookup(entity, Get(coordinator_data, "Nodes", << >>), coordinator_data)

InOptions(state, options) ==
    state.t = "str" /\ \E k \in 1..Len(options) : options[k] = state.v

RECURSIVE OptionLookup(_, _)
OptionLookup(entity, nodes) ==
    IF Len(nodes) = 0 THEN PyNone
    ELSE IF Get(Head(nodes), "Node", PyNone) = entity.node_id
         THEN LET state == Get(Get(Head(nodes), "Ventilation", EmptyDict), "State", PyNone)
              IN  IF InOptions(state, entity.options) THEN state ELSE PyNone
         ELSE OptionLookup(entity, Tail(nodes))

\* DucoboxModeSelect.current_option
DucoboxModeSelect_current_option(entity, coordinator_data) ==
    OptionLookup(entity, Get(coordinator_data, "Nodes", << >>))

\* The except clause replaced by a finally clause that refreshes anyway.
MutantSelectOptionStep(at, ok) ==
    CASE at = "change_action_node" /\ ok  -> "sleep"
      [] at = "change_action_node" /\ ~ok -> "async_request_refresh"
      [] at = "sleep"                     -> "async_request_refresh"
      [] at = "async_request_refresh"     -> "returned"

\* DucoboxModeSelect.async_select_option: where the coroutine goes when the
\* awaited step `at` ends (ok: it returned, ~ok: it raised).  An exception of
\* the set action is logged by the except clause and the call returns.
SelectOptionStep(at, ok) ==
    CASE at = "change_action_node" /\ ok  -> "sleep"
      [] at = "change_action_node" /\ ~ok -> "returned"
      [] at = "sleep"                     -> "async_request_refresh"
      [] at = "async_request_refresh"     -> "returned"

----------------------------------------------------------------------------
(* Snapshots and device answers the entity creation is run on *)

MaxNodes == 2          \* a snapshot holds at most MaxNodes nodes

Absent == [t |-> "absent"]

\* The dict {k: v}, or {} when the key is absent.
Opt(k, v) == IF v = Absent THEN EmptyDict ELSE k :> v

Val(v) == IF v = Absent THEN Absent ELSE "Val" :> v

AUTO == PyStr(<<"A", "U", "T", "O">>)

GeneralOf(type, addr, parent) ==
    Opt("Type", Val(type)) @@ Opt("Addr", addr) @@ Opt("Parent", Val(parent))

VentilationOf(mode, state) == Opt("Mode", mode) @@ Opt("State", state)

NodeOf(node_id, general, ventilation) ==
    Opt("Node", node_id) @@ Opt("General", general) @@ Opt("Ventilation", ventilation)

VentilationShapes == {Absent, VentilationOf(AUTO, AUTO)}

BoxNodes ==
    {NodeOf(node_id, GeneralOf(BOX, addr, Absent), ventilation) :
        node_id \in {Absent, PyInt(1)},
        addr \in {Absent, PyInt(1), PyInt(2), "Val" :> PyInt(1)},
        ventilation \in VentilationShapes}

OtherNodes ==
    {NodeOf(PyInt(2), GeneralOf(VLV, Absent, parent), ventilation) :
        parent \in {Absent, PyInt(1), PyInt(9), PyStr(<<"a">>)},
        ventilation \in VentilationShapes \cup {VentilationOf(PyStr(<<"-">>), Absent)}}
    \cup {NodeOf(PyInt(3), GeneralOf(UC, Absent, PyInt(1)), VentilationOf(AUTO, AUTO)),
          NodeOf(PyInt(3), GeneralOf(Absent, Absent, PyInt(1)), VentilationOf(AUTO, AUTO)),
          NodeOf(PyInt(3), Absent, VentilationOf(AUTO, AUTO)),
          NodeOf(Absent, GeneralOf(VLV, Absent, Absent), Absent),
          EmptyDict}

NodeShapes == BoxNodes \cup OtherNodes

SeqsUpTo(S, n) == UNION {[1..k -> S] : k \in 0..n}

MacAB == PyStr(<<"A", ":", "B">>)

GeneralBlock(mac, box_name) ==
    Opt("General", Opt("Lan", Opt("Mac", Val(mac))) @@
                   Opt("Board", Opt("BoxName", Val(box_name))))

Snapshots ==
    {GeneralBlock(mac, box_name) @@ ("Nodes" :> nodes) :
        mac \in {MacAB},
        box_name \in {Absent, PyStr(<<"b", "o">>), PyNone},
        nodes \in SeqsUpTo(NodeShapes, MaxNodes)}
    \cup {GeneralBlock(MacAB, box_name) : box_name \in {Absent, PyStr(<<"b", "o">>)}}
    \cup {GeneralBlock(Absent, Absent) @@ ("Nodes" :> <<n>>) : n \in BoxNodes}
    \cup {EmptyDict}

\* What get_actions_node does for a node: it raises, or returns the actions.
Action(name, enum) == ("Action" :> name) @@ Opt("Enum", enum)

ActionsResponse(actions) == [t |-> "ok", Actions |-> actions]

NotCalled == [t |-> "notcalled"]

Responses ==
    {Raise("ConnectionError"),
     ActionsResponse(<< >>),
     ActionsResponse(<<Action(SetVentilationState, Absent)>>),
     ActionsResponse(<<Action(SetVentilationState, PyNone)>>),
     ActionsResponse(<<Action("SetIdentify", PyList(<<PyStr(<<"o">>)>>)),
                       Action(SetVentilationState, PyList(<< >>))>>),
     ActionsResponse(<<Action("SetIdentify", PyList(<<PyStr(<<"o">>)>>)),
                       Action(SetVentilationState,
                              PyList(<<PyStr(<<" ", "A", "U", "T", "O">>), PyInt(1),
                                       PyStr(<<"a", " ", "b", " ">>)>>))>>)}

\* The loop calls get_actions_node only for a node with a ventilation mode.
Called(node) ==
    LET mode == Get(Get(node, "Ventilation", EmptyDict), "Mode", PyNone)
    IN  ~(mode = PyNone \/ mode = PyStr(<<"-">>))

ResponsesFor(nodes) ==
    {r \in [1..Len(nodes) -> Responses \cup {NotCalled}] :
        \A i \in 1..Len(nodes) : (r[i] = NotCalled) <=> ~Called(nodes[i])}

XfIdle ==
    /\ fn = "none"
    /\ raw = PyNone
    /\ out = PyNone

Platforms == {"sensor", "select"}

NoReading == [kind |-> "none"]
NoRequest == [at |-> "idle"]

\* No config flow is in progress.
FlowIdle ==
    /\ flow = [handler |-> "none"]
    /\ entries = << >>

\* No coordinator polls, no entity is read and no option is selected.
RunIdle ==
    /\ coord = [c \in Platforms |-> [data |-> EmptyDict, last_update_success |-> TRUE]]
    /\ lastGood = [c \in Platforms |-> EmptyDict]
    /\ reading = NoReading
    /\ request = NoRequest
    /\ trace = << >>
    /\ refresh_requested = FALSE

SetupInit ==
    /\ data \in Snapshots
    /\ sensorSetup = Pending
    /\ selectSetup = Pending
    /\ resp = << >>
    /\ XfIdle
    /\ RunIdle
    /\ FlowIdle

\* sensor.async_setup_entry
SensorSetup ==
    /\ sensorSetup = Pending
    /\ sensorSetup' = sensor_async_setup_entry(data)
    /\ UNCHANGED <<data, selectSetup, resp>>
    /\ UNCHANGED <<xfVars, runVars, flowVars>>

\* select.async_setup_entry
SelectSetup ==
    /\ selectSetup = Pending
    /\ \E responses \in ResponsesFor(Get(data, "Nodes", << >>)) :
          /\ resp' = responses
          /\ selectSetup' = select_async_setup_entry(data, responses)
    /\ UNCHANGED <<data, sensorSetup>>
    /\ UNCHANGED <<xfVars, runVars, flowVars>>

----------------------------------------------------------------------------
(* The transforms applied to the raw values of a snapshot field *)

MaxRaw == 260          \* raw integers run over -MinRawBelow .. MaxRaw
MinRawBelow == 12

RawStrings ==
    {<< >>, <<"o", "k">>, <<"O", "K">>, <<"a", " ", "b">>, <<"1", "a", "-", "B">>}

RawValues ==
    {PyNone} \cup {PyInt(i) : i \in -MinRawBelow..MaxRaw}
             \cup {PyBool(b) : b \in BOOLEAN}
             \cup {PyStr(s) : s \in RawStrings}

SetupIdle ==
    /\ data = EmptyDict
    /\ sensorSetup = Pending
    /\ selectSetup = Pending
    /\ resp = << >>

XfInit ==
    /\ fn = "none"
    /\ raw \in RawValues
    /\ out = PyNone
    /\ SetupIdle
    /\ RunIdle
    /\ FlowIdle

\* One call of a transform on the raw value.
ApplyTransform ==
    /\ fn = "none"
    /\ \E f \in TransformNames :
          /\ fn' = f
          /\ out' = CallTransform(f, raw)
    /\ UNCHANGED raw
    /\ UNCHANGED <<setupVars, runVars, flowVars>>

XfNext == ApplyTransform

SpecTransforms == XfInit /\ [][XfNext]_vars

SetupNext ==
    \/ SensorSetup
    \/ SelectSetup

SpecSetup == SetupInit /\ [][SetupNext]_vars

----------------------------------------------------------------------------
(* Run time: the two coordinators poll, entities are read, options selected *)

MAN == PyStr(<<"a", " ", "b">>)

GoodResponse ==
    ActionsResponse(<<Action(SetVentilationState,
                             PyList(<<PyStr(<<" ", "A", "U", "T", "O">>), PyInt(1),
                                      PyStr(<<"a", " ", "b", " ">>)>>))>>)

RunBox(state) ==
    NodeOf(PyInt(1), GeneralOf(BOX, PyInt(1), Absent), VentilationOf(AUTO, state))

RunValve(state, temp) ==
    NodeOf(PyInt(2), GeneralOf(VLV, Absent, PyInt(1)), VentilationOf(AUTO, state))
        @@ Opt("Sensor", Opt("Temp", Val(temp)))

RunSnapshot(nodes) == GeneralBlock(MacAB, PyStr(<<"b", "o">>)) @@ ("Nodes" :> nodes)

\* What a poll of the device may return.
RunSnapshots ==
    {RunSnapshot(<<RunBox(AUTO)>>),
     RunSnapshot(<<RunBox(AUTO), RunValve(AUTO, Absent)>>),
     RunSnapshot(<<RunBox(MAN), RunValve(PyInt(1), PyInt(21))>>),
     RunSnapshot(<<RunValve(MAN, PyInt(19)), RunBox(Absent)>>)}

Sensors == sensorSetup.entities
Selects == selectSetup.entities

\* The state after both platforms were set up on the first refresh.
RunInit ==
    /\ data \in {d \in RunSnapshots : Len(d.Nodes) > 1 /\ NodeType(d.Nodes[1]) = BOX}
    /\ resp = [i \in 1..Len(data.Nodes) |-> GoodResponse]
    /\ sensorSetup = sensor_async_setup_entry(data)
    /\ selectSetup = select_async_setup_entry(data, resp)
    /\ coord = [c \in Platforms |-> [data |-> data, last_update_success |-> TRUE]]
    /\ lastGood = [c \in Platforms |-> data]
    /\ reading = NoReading
    /\ request = NoRequest
    /\ trace = << >>
    /\ refresh_requested = FALSE
    /\ XfIdle
    /\ FlowIdle

\* A poll of platform c's coordinator succeeds: the snapshot is replaced.
PollSuccess(c) ==
    /\ \E snapshot \in RunSnapshots :
          /\ coord' = [coord EXCEPT ![c] = [data |-> snapshot, last_update_success |-> TRUE]]
          /\ lastGood' = [lastGood EXCEPT ![c] = snapshot]
    /\ refresh_requested' = IF c = "select" THEN FALSE ELSE refresh_requested
    /\ reading' = NoReading
    /\ UNCHANGED <<request, trace, setupVars, xfVars, flowVars>>

\* A poll of platform c's coordinator fails: the failure is recorded and the
\* snapshot is left as it is.
PollFailure(c) ==
    /\ coord' = [coord EXCEPT ![c].last_update_success = FALSE]
    /\ refresh_requested' = IF c = "select" THEN FALSE ELSE refresh_requested
    /\ reading' = NoReading
    /\ UNCHANGED <<lastGood, request, trace, setupVars, xfVars, flowVars>>

\* The state of sensor entity i is read.
ReadSensor(i) ==
    /\ reading' =
          [kind |-> "sensor", idx |-> i,
           value |-> IF Sensors[i].cls = "DucoboxSensorEntity"
                     THEN DucoboxSensorEntity_native_value(Sensors[i], coord["sensor"].data)
                     ELSE DucoboxNodeSensorEntity_native_value(Sensors[i],
                              coord["sensor"].data)]
    /\ UNCHANGED <<coord, lastGood, request, trace, refresh_requested, setupVars, xfVars, flowVars>>

\* The current option of select entity k is read.
ReadSelect(k) ==
    /\ reading' =
          [kind |-> "select", idx |-> k,
           value |-> DucoboxModeSelect_current_option(Selects[k], coord["select"].data)]
    /\ UNCHANGED <<coord, lastGood, request, trace, refresh_requested, setupVars, xfVars, flowVars>>

\* async_select_option(option) is called on select entity k and awaits the
\* executor job that runs change_action_node.
SelectOption(k, option) ==
    /\ request.at \in {"idle", "returned"}
    /\ request' = [at |-> "change_action_node", entity |-> k, option |-> option]
    /\ trace' = << >>
    /\ UNCHANGED <<coord, lastGood, reading, refresh_requested, setupVars, xfVars, flowVars>>

\* The executor job ends: change_action_node returned or raised.
SetActionEnds(ok) ==
    /\ request.at = "change_action_node"
    /\ trace' = Append(trace, [op |-> "change_action_node",
                               action |-> SetVentilationState,
                               value |-> request.option,
                               node |-> Selects[request.entity].node_id,
                               ok |-> ok])
    /\ request' = [request EXCEPT !.at = SelectOptionStep("change_action_node", ok)]
    /\ UNCHANGED <<coord, lastGood, reading, refresh_requested, setupVars, xfVars, flowVars>>

\* asyncio.sleep(0.5) ends.
SleepEnds ==
    /\ request.at = "sleep"
    /\ trace' = Append(trace, [op |-> "sleep"])
    /\ request' = [request EXCEPT !.at = SelectOptionStep("sleep", TRUE)]
    /\ UNCHANGED <<coord, lastGood, reading, refresh_requested, setupVars, xfVars, flowVars>>

\* coordinator.async_request_refresh()
RequestRefresh ==
    /\ request.at = "async_request_refresh"
    /\ trace' = Append(trace, [op |-> "async_request_refresh"])
    /\ refresh_requested' = TRUE
    /\ request' = [request EXCEPT !.at = SelectOptionStep("async_request_refresh", TRUE)]
    /\ UNCHANGED <<coord, lastGood, reading, setupVars, xfVars, flowVars>>

Next ==
    \/ \E c \in Platforms : PollSuccess(c)
    \/ \E c \in Platforms : PollFailure(c)
    \/ \E i \in 1..Len(Sensors) : ReadSensor(i)
    \/ \E k \in 1..Len(Selects) : ReadSelect(k)
    \/ \E k \in 1..Len(Selects) :
          \E j \in 1..Len(Selects[k].options) : SelectOption(k, Selects[k].options[j])
    \/ \E ok \in BOOLEAN : SetActionEnds(ok)
    \/ SleepEnds
    \/ RequestRefresh

Spec == RunInit /\ [][Next]_vars

----------------------------------------------------------------------------
(* config_flow.py: the str and URL operations the flows use *)

UpperLetters ==
    <<"A", "B", "C", "D", "E", "F", "G", "H", "I", "J", "K", "L", "M",
      "N", "O", "P", "Q", "R", "S", "T", "U", "V", "W", "X", "Y", "Z">>

LowerLetters ==
    <<"a", "b", "c", "d", "e", "f", "g", "h", "i", "j", "k", "l", "m",
      "n", "o", "p", "q", "r", "s", "t", "u", "v", "w", "x", "y", "z">>

IsUpperLetter(c) == \E i \in 1..Len(UpperLetters) : UpperLetters[i] = c
IsLowerLetter(c) == \E i \in 1..Len(LowerLetters) : LowerLetters[i] = c
IsAsciiAlpha(c) == IsUpperLetter(c) \/ IsLowerLetter(c)

AsciiLower(c) ==
    IF IsUpperLetter(c)
    THEN LowerLetters[CHOOSE i \in 1..Len(UpperLetters) : UpperLetters[i] = c]
    ELSE c

\* name.lower()
LowerStr(s) == [i \in 1..Len(s) |-> AsciiLower(s[i])]

\* s.startswith(prefix)
StartsWith(s, prefix) ==
    Len(prefix) <= Len(s) /\ SubSeq(s, 1, Len(prefix)) = prefix

\* a in b, for two strings: a is a substring of b.
IsSubstring(a, b) ==
    \E i \in 0..(Len(b) - Len(a)) : SubSeq(b, i + 1, i + Len(a)) = a

\* s.find(c) + 1: the first position of c in s, 0 when there is none.
Find(s, c) ==
    IF \E i \in 1..Len(s) : s[i] = c
    THEN CHOOSE i \in 1..Len(s) : s[i] = c /\ \A j \in 1..(i - 1) : s[j] # c
    ELSE 0

\* s.split(sep) for a one-character sep.
RECURSIVE Split(_, _)
Split(s, sep) ==
    LET i == Find(s, sep)
    IN  IF i = 0 THEN <<s>>
        ELSE <<SubSeq(s, 1, i - 1)>> \o Split(SubSeq(s, i + 1, Len(s)), sep)

\* s.strip("[]")
RECURSIVE StripBrackets(_)
StripBrackets(s) ==
    IF Len(s) > 0 /\ Head(s) \in {"[", "]"} THEN StripBrackets(Tail(s))
    ELSE IF Len(s) > 0 /\ s[Len(s)] \in {"[", "]"}
         THEN StripBrackets(SubSeq(s, 1, Len(s) - 1))
         ELSE s

\* s.rstrip("/")
RECURSIVE RStripSlash(_)
RStripSlash(s) ==
    IF Len(s) > 0 /\ s[Len(s)] = "/" THEN RStripSlash(SubSeq(s, 1, Len(s) - 1)) ELSE s

IsSchemeChar(c) == IsAsciiAlpha(c) \/ IsDigit(c) \/ c \in {"+", "-", "."}

\* Whether urlparse takes the text before the first ":" as the scheme.
HasScheme(url) ==
    LET i == Find(url, ":")
    IN  /\ i > 1
        /\ IsAsciiAlpha(url[1])
        /\ \A k \in 1..(i - 1) : IsSchemeChar(url[k])

\* urlparse(url).scheme
UrlScheme(url) ==
    IF HasScheme(url) THEN LowerStr(SubSeq(url, 1, Find(url, ":") - 1)) ELSE << >>

\* urlparse(url).netloc: what follows "//" up to the next "/", "?" or "#".
UrlNetloc(url) ==
    LET rest == IF HasScheme(url) THEN SubSeq(url, Find(url, ":") + 1, Len(url)) ELSE url
        tail == SubSeq(rest, 3, Len(rest))
        ends == {i \in 1..Len(tail) : tail[i] \in {"/", "?", "#"}}
    IN  IF ~StartsWith(rest, <<"/", "/">>) THEN << >>
        ELSE IF ends = {} THEN tail
        ELSE SubSeq(tail, 1, (CHOOSE i \in ends : \A j \in ends : i <= j) - 1)

\* urlparse raises ValueError("Invalid IPv6 URL") for an unbalanced bracket.
UrlParseRaises(url) ==
    (Find(UrlNetloc(url), "[") > 0) # (Find(UrlNetloc(url), "]") > 0)

Https == <<"h", "t", "t", "p", "s">>
Http == <<"h", "t", "t", "p">>

----------------------------------------------------------------------------
(* config_flow.py: the steps of the flows *)

NoErrors == {}
CannotConnect == {<<"base_url", "cannot_connect">>}

\* The FlowResult of async_show_form, async_create_entry and async_abort, and
\* an exception that leaves the step.
ShowForm(step_id, errors) == [type |-> "form", step_id |-> step_id, errors |-> errors]
CreateEntry(title, entry_data) == [type |-> "create_entry", title |-> title, data |-> entry_data]
Abort(reason) == [type |-> "abort", reason |-> reason]
Unhandled(exc) == [type |-> "raise", error |-> exc]

NoContext == [host |-> << >>, unique_id |-> << >>, communication_board_info |-> EmptyDict]

\* What a step hands back: its result, the calls it made to the device, and
\* self.context["discovery"] as it leaves it.
StepOutcome(result, calls, discovery) ==
    [result |-> result, calls |-> calls, discovery |-> discovery]

RequestsGet(url) == [call |-> "requests.get", url |-> url]

\* requests.get can only reach a device through an http or https URL; for
\* any other URL it raises a RequestException before connecting.
GetOutcomes(base_url) ==
    IF UrlScheme(base_url) \in {Http, Https} /\ ~UrlParseRaises(base_url)
       /\ Len(UrlNetloc(base_url)) > 0
    THEN {"ok", "RequestException"}
    ELSE {"RequestException"}

\* A user step that creates the entry although the request failed.
Mutant_async_step_user(user_input, outcome) ==
    IF user_input = PyNone THEN StepOutcome(ShowForm("user", NoErrors), << >>, NoContext)
    ELSE StepOutcome(CreateEntry("Ducobox Connectivity Board", user_input),
                     <<RequestsGet(RStripSlash(user_input.base_url) \o <<"/", "i", "n", "f", "o">>)>>,
                     NoContext)

\* duco_ventilation_sun_control: DucoboxConnectivityBoardConfigFlow.async_step_user.
\* outcome is what requests.get does when it is called.
async_step_user(user_input, outcome) ==
    IF user_input = PyNone THEN StepOutcome(ShowForm("user", NoErrors), << >>, NoContext)
    ELSE LET base_url == user_input.base_url
             call == RequestsGet(RStripSlash(base_url) \o <<"/", "i", "n", "f", "o">>)
         IN  IF UrlParseRaises(base_url)
             THEN StepOutcome(ShowForm("user", CannotConnect), << >>, NoContext)
             \* parsed_url.scheme not in ('https'): ('https') is the str 'https'
             ELSE IF ~IsSubstring(UrlScheme(base_url), Https)
             THEN StepOutcome(ShowForm("user", CannotConnect), << >>, NoContext)
             ELSE IF outcome = "ok"
             THEN StepOutcome(CreateEntry("Ducobox Connectivity Board", user_input),
                              <<call>>, NoContext)
             ELSE StepOutcome(ShowForm("user", CannotConnect), <<call>>, NoContext)

\* duco_air: DucoboxConnectivityBoardConfigFlow.async_step_user.
duco_air_async_step_user(user_input, outcome) ==
    IF user_input = PyNone THEN StepOutcome(ShowForm("user", NoErrors), << >>, NoContext)
    ELSE LET base_url == user_input.base_url
             call == RequestsGet(RStripSlash(base_url) \o <<"/", "i", "n", "f", "o">>)
         IN  IF outcome = "ok"
             THEN StepOutcome(CreateEntry("Ducobox Connectivity Board", user_input),
                              <<call>>, NoContext)
             ELSE StepOutcome(ShowForm("user", CannotConnect), <<call>>, NoContext)

CONNECTIVITY ==
    PyStr(<<"C", "O", "N", "N", "E", "C", "T", "I", "V", "I", "T", "Y">>)

\* async_step_confirm: the entry for the discovered board once the user has
\* confirmed, the confirmation form before that.  The local `product` is
\* assigned only for a board of type "CONNECTIVITY".
async_step_confirm(discovery, user_input) ==
    LET info == discovery.communication_board_info
        communication_board_type ==
            Get4(info, "General", "Board", "CommSubTypeName", "Val", PyStr(<< >>))
        communication_board_mac == Get4(info, "General", "Lan", "Mac", "Val", PyStr(<< >>))
        product ==
            IF communication_board_type = CONNECTIVITY
            THEN [title |-> "Connectivity board",
                  data |-> [base_url |-> Https \o <<":", "/", "/">> \o discovery.host,
                            unique_id |-> communication_board_mac]]
            ELSE Unbound
    IN  IF user_input # PyNone
        THEN IF product = Unbound
             THEN StepOutcome(Unhandled("UnboundLocalError"), << >>, discovery)
             ELSE StepOutcome(CreateEntry(product.title, product.data), << >>, discovery)
        ELSE StepOutcome(ShowForm("confirm", NoErrors), << >>, discovery)

\* async_step_zeroconf.  configured: the unique id already has an entry;
\* client_ok: DucoPy(...) returns; info: what get_info returns or raises.
async_step_zeroconf(discovery_info, configured, client_ok, info) ==
    LET name == discovery_info.name
        parts == Split(name, " ")
    IN  IF ~(\/ StartsWith(LowerStr(name), <<"d", "u", "c", "o", "_">>)
             \/ StartsWith(LowerStr(name), <<"d", "u", "c", "o", " ">>))
        THEN StepOutcome(Abort("not_duco_air_device"), << >>, NoContext)
        ELSE IF Len(discovery_info.addresses) = 0 \/ Len(parts) < 2
        THEN StepOutcome(Unhandled("IndexError"), << >>, NoContext)
        ELSE LET host == discovery_info.addresses[1]
                 unique_id == StripBrackets(parts[2])
             IN  IF configured
                 THEN StepOutcome(Abort("already_configured"), << >>, NoContext)
                 ELSE IF ~client_ok
                 THEN StepOutcome(Abort("cannot_connect"), <<[call |-> "DucoPy"]>>, NoContext)
                 ELSE IF IsRaise(info)
                 THEN StepOutcome(Abort("unable_to_get_info"),
                                  <<[call |-> "DucoPy"], [call |-> "get_info"]>>, NoContext)
                 ELSE LET confirm ==
                              async_step_confirm(
                                  [host |-> host, unique_id |-> unique_id,
                                   communication_board_info |-> info.v], PyNone)
                      IN  StepOutcome(confirm.result,
                                      <<[call |-> "DucoPy"], [call |-> "get_info"]>>,
                                      confirm.discovery)

----------------------------------------------------------------------------
(* The flows: a user flow of either integration, or a discovery *)

SunControl == "duco_ventilation_sun_control"
DucoAir == "duco_air"

BaseUrls ==
    {<<"h", "t", "t", "p", "s", ":", "/", "/", "x">>,
     <<"h", "t", "t", "p", "s", ":", "/", "/", "x", "/">>,
     <<"H", "T", "T", "P", "S", ":", "/", "/", "x">>,
     <<"h", "t", "t", "p", ":", "/", "/", "x">>,
     <<"f", "t", "p", ":", "/", "/", "x">>,
     <<"t", "p", ":", "/", "/", "x">>,
     <<"x">>,
     <<"x", ":", "1">>,
     <<"1", "s", ":", "/", "/", "x">>,
     <<"h", "t", "t", "p", "s", ":", "/", "/", "[">>,
     << >>}

DiscoveryNames ==
    {<<"D", "U", "C", "O", " ", "[", "a", "b", "]">>,
     <<"d", "u", "c", "o", "_", "a", "b">>,
     <<"D", "u", "c", "o", "_", "1", " ", "[", "a", "]", " ", "x">>,
     <<"o", "t", "h", "e", "r", " ", "[", "a", "b", "]">>}

DiscoveryInfos ==
    {[name |-> n, addresses |-> a] : n \in DiscoveryNames, a \in {<< >>, <<<<"1">>>>}}

\* What get_info returns for a board, or the exception it raises.
BoardInfos ==
    {Raise("ConnectionError"),
     Ok(EmptyDict),
     Ok(Opt("General", Opt("Lan", Opt("Mac", Val(MacAB))))),
     Ok(Opt("General", Opt("Board", Opt("CommSubTypeName", Val(PyStr(<<"X">>)))))),
     Ok(Opt("General", Opt("Board", Opt("CommSubTypeName", Val(CONNECTIVITY))))),
     Ok(Opt("General", Opt("Board", Opt("CommSubTypeName", Val(CONNECTIVITY)))
                       @@ Opt("Lan", Opt("Mac", Val(MacAB)))))}

NoInput == [kind |-> "none"]

\* A flow of handler h started from source s, before its first step.
NewFlow(h, s) ==
    [handler |-> h, source |-> s, step |-> "init", input |-> NoInput,
     result |-> [type |-> "none"], calls |-> << >>, discovery |-> NoContext]

FlowInit ==
    /\ flow \in {NewFlow(SunControl, "user"), NewFlow(SunControl, "zeroconf"),
                 NewFlow(DucoAir, "user")}
    /\ entries = << >>
    /\ XfIdle
    /\ SetupIdle
    /\ RunIdle

\* The step the flow is at after a result: the form's step, or the end.
StepAfter(result) == IF result.type = "form" THEN result.step_id ELSE "done"

\* The entries after a result: a create_entry result adds one.
EntriesAfter(result) ==
    IF result.type = "create_entry" THEN Append(entries, result) ELSE entries

UserStep(h, user_input, outcome) ==
    IF h = SunControl THEN async_step_user(user_input, outcome)
    ELSE duco_air_async_step_user(user_input, outcome)

\* The flow manager starts a user flow: async_step_user(None).
UserFlowStarts ==
    /\ flow.source = "user"
    /\ flow.step = "init"
    /\ LET o == UserStep(flow.handler, PyNone, "ok")
       IN  /\ flow' = [flow EXCEPT !.step = StepAfter(o.result), !.result = o.result,
                                   !.calls = o.calls,
                                   !.input = [kind |-> "user", user_input |-> PyNone]]
           /\ entries' = EntriesAfter(o.result)
    /\ UNCHANGED <<xfVars, setupVars, runVars>>

\* The user submits the form: async_step_user({"base_url": base_url}).
UserSubmits ==
    /\ flow.source = "user"
    /\ flow.step = "user"
    /\ \E base_url \in BaseUrls :
          \E outcome \in GetOutcomes(base_url) :
              LET user_input == [base_url |-> base_url]
                  o == UserStep(flow.handler, user_input, outcome)
              IN  /\ flow' = [flow EXCEPT !.step = StepAfter(o.result),
                                          !.result = o.result, !.calls = o.calls,
                                          !.input = [kind |-> "user",
                                                     user_input |-> user_input,
                                                     outcome |-> outcome]]
                  /\ entries' = EntriesAfter(o.result)
    /\ UNCHANGED <<xfVars, setupVars, runVars>>

\* A device is discovered: async_step_zeroconf(discovery_info).
Discovered ==
    /\ flow.source = "zeroconf"
    /\ flow.step = "init"
    /\ \E discovery_info \in DiscoveryInfos, configured \in BOOLEAN,
          client_ok \in BOOLEAN, info \in BoardInfos :
              LET o == async_step_zeroconf(discovery_info, configured, client_ok, info)
              IN  /\ flow' = [flow EXCEPT !.step = StepAfter(o.result),
                                          !.result = o.result, !.calls = o.calls,
                                          !.discovery = o.discovery,
                                          !.input = [kind |-> "zeroconf",
                                                     discovery_info |-> discovery_info,
                                                     configured |-> configured,
                                                     client_ok |-> client_ok,
                                                     info |-> info]]
                  /\ entries' = EntriesAfter(o.result)
    /\ UNCHANGED <<xfVars, setupVars, runVars>>

\* The user confirms the discovered device: async_step_confirm({}).
Confirmed ==
    /\ flow.source = "zeroconf"
    /\ flow.step = "confirm"
    /\ LET o == async_step_confirm(flow.discovery, EmptyDict)
       IN  /\ flow' = [flow EXCEPT !.step = StepAfter(o.result), !.result = o.result,
                                   !.calls = o.calls,
                                   !.input = [kind |-> "confirm", user_input |-> EmptyDict]]
           /\ entries' = EntriesAfter(o.result)
    /\ UNCHANGED <<xfVars, setupVars, runVars>>

FlowNext ==
    \/ UserFlowStarts
    \/ UserSubmits
    \/ Discovered
    \/ Confirmed

SpecFlow == FlowInit /\ [][FlowNext]_vars

----------------------------------------------------------------------------
(* Properties of the transforms *)

\* 100*b/255 is never within 1/102 of a half-integer for a byte b: with
\* m = (200*b) mod 510 the distance from the tie is |m - 255| / 510 >= 5/510.
BypassFarFromTie ==
    \A b \in 0..ByteMax : Abs(((2 * PercentMax * b) % (2 * ByteMax)) - ByteMax) >= 5

\* C2: _process_temperature(v) is v/10 for a number v and None for None.
C2_TemperatureIsTenth ==
    fn = "_process_temperature" =>
        /\ (raw = PyNone => out = PyNone)
        /\ (raw.t \in {"int", "bool"} =>
                /\ out.t = "float"
                /\ out.n * 10 = NumOf(raw)[1] * out.d)

C2_Witness ==
    /\ fn = "_process_temperature"
    /\ raw = PyInt(215)
    /\ out = [t |-> "float", n |-> 43, d |-> 2]

\* The integer nearest to 100*b/255 (a tie, if there were one, going to the
\* even neighbour), stated without the division.
NearestPercent(b) ==
    CHOOSE r \in -1..(PercentMax + 1) :
        \/ 2 * Abs(ByteMax * r - PercentMax * b) < ByteMax
        \/ 2 * Abs(ByteMax * r - PercentMax * b) = ByteMax /\ r % 2 = 0

\* C3: for a byte b, _process_bypass_position(b) is round(b/255*100), an
\* integer in 0..100, 0 for 0 and 100 for 255, and non-decreasing in b.
C3_BypassPercent ==
    (fn = "_process_bypass_position" /\ raw.t = "int" /\ raw.v \in 0..ByteMax) =>
        /\ out = PyInt(NearestPercent(raw.v))
        /\ out.v \in 0..PercentMax
        /\ (raw.v = 0 => out.v = 0)
        /\ (raw.v = ByteMax => out.v = PercentMax)
        /\ (raw.v > 0 => _process_bypass_position(PyInt(raw.v - 1)).v <= out.v)

C3_Witness ==
    /\ fn = "_process_bypass_position"
    /\ raw = PyInt(128)
    /\ out = PyInt(50)

\* C8: every transform returns without raising for every raw value, and
\* returns None exactly when the raw value is None.
C8_TransformsTotal ==
    fn # "none" =>
        /\ out.t # "raise"
        /\ (out = PyNone <=> raw = PyNone)

----------------------------------------------------------------------------
(* Properties of the entity creation *)

NodesOf(snapshot) == Get(snapshot, "Nodes", << >>)

IsBoxNode(node) == Get3(node, "General", "Type", "Val", PyNone) = BOX

HasBox(snapshot) == \E i \in 1..Len(NodesOf(snapshot)) : IsBoxNode(NodesOf(snapshot)[i])

HasMac(snapshot) == Truthy(get_mac_address(snapshot))

RootId(snapshot) == DeviceIdOf(get_mac_address(snapshot))

SensorsCreated == sensorSetup.status = "ok"
SelectsCreated == selectSetup.status = "ok"

\* create_select_entities has run and returned.
SelectLoopDone == HasMac(data) /\ SelectsCreated

NodeSensorsOf(entities) ==
    {i \in 1..Len(entities) : entities[i].cls = "DucoboxNodeSensorEntity"}

\* No other node of the snapshot carries the "Node" id of node i.
OwnId(nodes, i) ==
    \A j \in 1..Len(nodes) :
        j # i => Get(nodes[j], "Node", PyNone) # Get(nodes[i], "Node", PyNone)

BoxDescriptions ==
    {d.key : d \in {DUCONETWORK_SENSORS[1], CALIBRATION_SENSORS[1],
                    BOX_SENSORS(PyStr(<<"b", "o">>))[1]}}

\* C4: a snapshot without a BOX node yields no box device id and no box
\* sensor, and every device the creation makes for a node is linked to the
\* root device.
C4_NoBoxAllViaRoot ==
    (HasMac(data) /\ ~HasBox(data)) =>
        /\ SensorsCreated =>
              /\ create_node_sensors(data, RootId(data)).box_device_ids = << >>
              /\ \A i \in NodeSensorsOf(sensorSetup.entities) :
                    LET e == sensorSetup.entities[i]
                    IN  /\ e.entity_description.key \notin BoxDescriptions
                        /\ e.device_info.via_device = Ref(RootId(data))
        /\ SelectsCreated =>
              /\ get_box_device_ids(RootId(data), NodesOf(data)) = Ok(<< >>)
              /\ \A i \in 1..Len(selectSetup.entities) :
                    selectSetup.entities[i].device_info.via_device = Ref(RootId(data))

C4_Witness ==
    /\ HasMac(data) /\ ~HasBox(data)
    /\ Len(NodesOf(data)) = MaxNodes
    /\ SensorsCreated /\ SelectsCreated
    /\ NodeSensorsOf(sensorSetup.entities) # {}
    /\ \E i \in 1..Len(resp) : resp[i] \notin {NotCalled, Raise("ConnectionError")}

\* The node's Parent value is present and is neither the Addr nor the Node id
\* of any BOX node of the snapshot.
DanglingParent(nodes, i) ==
    LET parent == Get3(nodes[i], "General", "Parent", "Val", Absent)
    IN  /\ ~IsBoxNode(nodes[i])
        /\ parent # Absent
        /\ \A j \in 1..Len(nodes) :
              IsBoxNode(nodes[j]) =>
                  /\ Get(Get(nodes[j], "General", EmptyDict), "Addr", Absent) # parent
                  /\ Get(nodes[j], "Node", Absent) # parent

\* Every BOX node carries an integer "Node" id and an integer Addr.
BoxesComplete(nodes) ==
    \A j \in 1..Len(nodes) :
        IsBoxNode(nodes[j]) =>
            /\ Get(nodes[j], "Node", PyNone).t = "int"
            /\ Get(Get(nodes[j], "General", EmptyDict), "Addr", PyNone) \in {PyInt(1)}

\* C5: entity creation completes without error, and the device of a non-BOX
\* node whose Parent matches no box is linked to the root device (checked on
\* the snapshots whose BOX nodes are complete).
C5_DanglingParentViaRoot ==
    (HasMac(data) /\ BoxesComplete(NodesOf(data))) =>
        \A i \in 1..Len(NodesOf(data)) :
            (DanglingParent(NodesOf(data), i) /\ OwnId(NodesOf(data), i)) =>
                /\ sensorSetup.status # "raise"
                /\ selectSetup.status # "raise"
                /\ SensorsCreated =>
                      \A k \in NodeSensorsOf(sensorSetup.entities) :
                          sensorSetup.entities[k].node_id = Get(NodesOf(data)[i], "Node", PyNone)
                              => sensorSetup.entities[k].device_info.via_device
                                     = Ref(RootId(data))
                /\ SelectsCreated =>
                      \A k \in 1..Len(selectSetup.entities) :
                          selectSetup.entities[k].node_id = Get(NodesOf(data)[i], "Node", PyNone)
                              => selectSetup.entities[k].device_info.via_device
                                     = Ref(RootId(data))

\* The answer carries no SetVentilationState action with a non-empty Enum:
\* the action is absent, has no Enum attribute, or its Enum is None or empty.
EnumOmitted(response) ==
    /\ response.t = "ok"
    /\ \A k \in 1..Len(response.Actions) :
          LET a == response.Actions[k]
          IN  a.Action = SetVentilationState =>
                  \/ "Enum" \notin DOMAIN a
                  \/ a.Enum = PyNone
                  \/ a.Enum = PyList(<< >>)

EntitiesOfNode(entities, node) ==
    {k \in 1..Len(entities) : entities[k].node_id = Get(node, "Node", PyNone)}

\* C6: a node whose SetVentilationState action is absent, or has no Enum or an
\* empty one, gets no mode-select entity.
C6_NoEnumNoSelect ==
    SelectLoopDone =>
        \A i \in 1..Len(resp) :
            (EnumOmitted(resp[i]) /\ OwnId(NodesOf(data), i)) =>
                EntitiesOfNode(selectSetup.entities, NodesOf(data)[i]) = {}

\* A node with an empty Enum that follows a BOX node which got its entity (so
\* that the Enum is all that keeps the node from getting one).
C6_Witness ==
    /\ SelectLoopDone
    /\ \E i \in 2..Len(resp) :
          /\ EnumOmitted(resp[i])
          /\ IsBoxNode(NodesOf(data)[1])
          /\ EntitiesOfNode(selectSetup.entities, NodesOf(data)[1]) # {}
          /\ OwnId(NodesOf(data), i)
          /\ \E a \in 1..Len(resp[i].Actions) :
                /\ resp[i].Actions[a].Action = SetVentilationState
                /\ "Enum" \in DOMAIN resp[i].Actions[a]
                /\ resp[i].Actions[a].Enum = PyList(<< >>)

\* The sequence without its element k.
Without(seq, k) == SubSeq(seq, 1, k - 1) \o SubSeq(seq, k + 1, Len(seq))

\* C7: when get_actions_node fails for a node, create_select_entities returns
\* no entity for that node and, for the other nodes, exactly the entities it
\* returns for the sequence without the failing node.
C7_FetchFailureSkipsOnlyThatNode ==
    SelectLoopDone =>
        \A k \in 1..Len(resp) :
            IsRaise(resp[k]) =>
                /\ (OwnId(NodesOf(data), k) =>
                        EntitiesOfNode(selectSetup.entities, NodesOf(data)[k]) = {})
                /\ selectSetup.entities =
                       create_select_entities(data, RootId(data),
                           Without(NodesOf(data), k),
                           get_box_device_ids(RootId(data), NodesOf(data)).v,
                           Without(resp, k))

\* The fetch fails for the first node and the node after it gets its entity.
C7_Witness ==
    /\ SelectLoopDone
    /\ Len(resp) > 1
    /\ IsRaise(resp[1])
    /\ EntitiesOfNode(selectSetup.entities, NodesOf(data)[1]) = {}
    /\ Len(selectSetup.entities) > 0

\* Fields are only missing, never of a wrong kind: every value that is present
\* is a dict where a dict is read, an int or a str where a scalar is read.
OnlyMissing(snapshot) ==
    /\ Get4(snapshot, "General", "Board", "BoxName", "Val", PyStr(<< >>)).t = "str"
    /\ \A i \in 1..Len(NodesOf(snapshot)) :
          Get(Get(NodesOf(snapshot)[i], "General", EmptyDict), "Addr", PyNone)
              \in {PyNone, PyInt(1)}

\* C9: with any subset of the fields missing, sensor and select entity
\* creation complete without raising.
C9_MissingFieldsNeverRaise ==
    OnlyMissing(data) =>
        /\ sensorSetup.status # "raise"
        /\ selectSetup.status # "raise"

\* Every BOX node carries an integer "Node" id and an integer Addr.
BoxesWellFormed(nodes) ==
    \A j \in 1..Len(nodes) :
        IsBoxNode(nodes[j]) =>
            /\ Get(nodes[j], "Node", PyNone).t = "int"
            /\ Get(Get(nodes[j], "General", EmptyDict), "Addr", PyNone)
                   \in {PyInt(a) : a \in 1..2}

\* The device ids of the BOX nodes of the snapshot.
BoxDeviceRefs(snapshot) ==
    {Ref(NodeDeviceId(RootId(snapshot), Get(NodesOf(snapshot)[j], "Node", PyNone))) :
        j \in {k \in 1..Len(NodesOf(snapshot)) : IsBoxNode(NodesOf(snapshot)[k])}}

\* C13: when the snapshot holds a BOX node, the device of every node that is
\* neither BOX nor UC is linked through the device of a BOX node of the
\* snapshot, whatever the Node id and the Addr of the BOX node are.
C13_NonBoxViaSomeBox ==
    (HasMac(data) /\ HasBox(data) /\ BoxesWellFormed(NodesOf(data)) /\ SensorsCreated) =>
        \A i \in 1..Len(NodesOf(data)) :
            (NodeType(NodesOf(data)[i]) \notin {BOX, UC} /\ OwnId(NodesOf(data), i)) =>
                \A k \in NodeSensorsOf(sensorSetup.entities) :
                    sensorSetup.entities[k].node_id = Get(NodesOf(data)[i], "Node", PyNone)
                        => sensorSetup.entities[k].device_info.via_device
                               \in BoxDeviceRefs(data)

\* The Enum lists of the SetVentilationState actions of an answer.
VentilationEnums(response) ==
    {response.Actions[k].Enum :
        k \in {a \in 1..Len(response.Actions) :
                  /\ response.Actions[a].Action = SetVentilationState
                  /\ "Enum" \in DOMAIN response.Actions[a]}}

\* get_actions_node succeeded for the node with one non-empty Enum list.
HasOptions(response) ==
    /\ response.t = "ok"
    /\ Cardinality(VentilationEnums(response)) = 1
    /\ \A e \in VentilationEnums(response) : e.t = "list" /\ Len(e.v) > 0

\* The stripped string members of an Enum list, in order.
StringMembers(enum) ==
    LET strs == SelectSeq(enum, LAMBDA x : x.t = "str")
    IN  [k \in 1..Len(strs) |-> Strip(strs[k].v)]

\* C14: a node with a ventilation mode whose answer carries a non-empty Enum
\* gets exactly one mode-select entity, its options the stripped strings of
\* the Enum, whatever its type and its place in the sequence.
C14_CapableNodeGetsOneSelect ==
    (SelectLoopDone /\ Get4(data, "General", "Board", "BoxName", "Val", Unknown).t = "str") =>
        \A i \in 1..Len(resp) :
            (Called(NodesOf(data)[i]) /\ HasOptions(resp[i]) /\ OwnId(NodesOf(data), i)) =>
                /\ Cardinality(EntitiesOfNode(selectSetup.entities, NodesOf(data)[i])) = 1
                /\ \A k \in EntitiesOfNode(selectSetup.entities, NodesOf(data)[i]) :
                      \A e \in VentilationEnums(resp[i]) :
                          selectSetup.entities[k].options = StringMembers(e.v)

----------------------------------------------------------------------------
(* Properties of the run-time behaviour *)

\* The first node of the snapshot that carries the id, if there is one.
NodeWithId(snapshot, node_id) ==
    LET nodes == NodesOf(snapshot)
        hits == {i \in 1..Len(nodes) : "Node" \in DOMAIN nodes[i] /\ nodes[i].Node = node_id}
    IN  IF hits = {} THEN Absent
        ELSE nodes[CHOOSE i \in hits : \A j \in hits : i <= j]

\* What a sensor entity shows for a snapshot.
SensorValueFor(entity, snapshot) ==
    IF entity.cls = "DucoboxSensorEntity"
    THEN CallTransform(entity.entity_description.value_fn,
                       Walk(snapshot, entity.entity_description.path))
    ELSE LET node == NodeWithId(snapshot, entity.node_id)
         IN  IF node = Absent THEN PyNone
             ELSE CallTransform(entity.entity_description.value_fn,
                                Walk(node, entity.entity_description.path))

\* What a select entity shows for a snapshot.
OptionFor(entity, snapshot) ==
    LET node == NodeWithId(snapshot, entity.node_id)
    IN  IF node = Absent \/ "Ventilation" \notin DOMAIN node
           \/ "State" \notin DOMAIN node.Ventilation
        THEN PyNone
        ELSE IF node.Ventilation.State.t = "str"
                /\ node.Ventilation.State.v \in {entity.options[k] : k \in 1..Len(entity.options)}
             THEN node.Ventilation.State
             ELSE PyNone

\* C1: each coordinator serves the result of its latest successful poll, a
\* failed poll changes nothing of it, and an entity that is read computes its
\* value from that snapshot.
C1_LastGoodSnapshotServed ==
    /\ \A c \in Platforms : coord[c].data = lastGood[c]
    /\ reading.kind = "sensor" =>
           reading.value = SensorValueFor(Sensors[reading.idx], lastGood["sensor"])
    /\ reading.kind = "select" =>
           reading.value = OptionFor(Selects[reading.idx], lastGood["select"])

\* After a failed poll a node sensor still reads 21 from the snapshot before it.
C1_Witness ==
    /\ ~coord["sensor"].last_update_success
    /\ reading.kind = "sensor"
    /\ Sensors[reading.idx].cls = "DucoboxNodeSensorEntity"
    /\ reading.value = PyInt(21)
    /\ ~coord["select"].last_update_success

SetActionEvent(ok) ==
    [op |-> "change_action_node", action |-> SetVentilationState,
     value |-> request.option, node |-> Selects[request.entity].node_id, ok |-> ok]

IsPrefix(a, b) == Len(a) <= Len(b) /\ a = SubSeq(b, 1, Len(a))

\* C10: a selection request does the set-action call for the entity's node
\* with the chosen option, then the delay, then the refresh request, in that
\* order; when the call fails it requests no refresh and returns.
C10_SetThenDelayThenRefresh ==
    request.at # "idle" =>
        LET whole == <<SetActionEvent(TRUE), [op |-> "sleep"],
                       [op |-> "async_request_refresh"]>>
        IN  /\ request.at \in {"change_action_node", "sleep",
                               "async_request_refresh", "returned"}
            /\ \/ IsPrefix(trace, whole)
               \/ trace = <<SetActionEvent(FALSE)>>
            /\ request.at = "returned" =>
                  trace \in {whole, <<SetActionEvent(FALSE)>>}
            /\ (Len(trace) > 0 /\ ~trace[1].ok) => request.at = "returned"

\* A request whose set-action call failed has returned, and one that ran
\* through has requested the refresh last.
C10_Witness ==
    /\ request.at = "returned"
    /\ trace = <<SetActionEvent(TRUE), [op |-> "sleep"], [op |-> "async_request_refresh"]>>
    /\ Selects[request.entity].node_id = PyInt(2)
    /\ refresh_requested

C10_WitnessFailure ==
    /\ request.at = "returned"
    /\ trace = <<SetActionEvent(FALSE)>>

\* What the entity that was read last shows for the snapshot its coordinator
\* holds now.
ShownFromLatestSnapshot ==
    /\ reading.kind = "sensor" =>
           reading.value = SensorValueFor(Sensors[reading.idx], coord["sensor"].data)
    /\ reading.kind = "select" =>
           reading.value = OptionFor(Selects[reading.idx], coord["select"].data)

\* C11: the value an entity shows is its value function applied to the latest
\* snapshot (for a node sensor: to the node record carrying the entity's node
\* id, None when there is none), and no poll, read or selection request
\* changes a field the entities were created with.
C11_ValueIsFunctionOfSnapshot ==
    /\ []ShownFromLatestSnapshot
    /\ [][sensorSetup' = sensorSetup /\ selectSetup' = selectSetup]_vars

\* The sensor of node 2 is read while the latest snapshot holds no node 2.
C11_Witness ==
    /\ reading.kind = "sensor"
    /\ Sensors[reading.idx].cls = "DucoboxNodeSensorEntity"
    /\ Sensors[reading.idx].node_id = PyInt(2)
    /\ Len(NodesOf(coord["sensor"].data)) = 1
    /\ coord["sensor"].data # data
    /\ reading.value = PyNone

----------------------------------------------------------------------------
(* Properties of the config flows *)

\* The last step was a submission of the user form.
UserSubmitted == flow.input.kind = "user" /\ flow.input.user_input # PyNone

\* The submission's connection attempt failed (requests.get raised).
UserConnectFailed == UserSubmitted /\ flow.input.outcome = "RequestException"

\* The last step was a discovery that got as far as connecting: the name was
\* accepted, it named a host and a unique id, and the id had no entry yet.
DiscoveryConnecting ==
    /\ flow.input.kind = "zeroconf"
    /\ flow.result.type # "raise"
    /\ flow.result # Abort("not_duco_air_device")
    /\ ~flow.input.configured

\* No call to the device is made twice in one step.
NoRepeatedCall ==
    \A i, j \in 1..Len(flow.calls) : flow.calls[i] = flow.calls[j] => i = j

\* The connectivity failures of the last step and what the step made of them.
FailureSurfaced ==
    /\ UserConnectFailed =>
          /\ flow.result = ShowForm("user", CannotConnect)
          /\ flow.step = "user"
          /\ entries = << >>
    /\ (DiscoveryConnecting /\ ~flow.input.client_ok) =>
          /\ flow.result = Abort("cannot_connect")
          /\ flow.step = "done"
          /\ entries = << >>
    /\ (DiscoveryConnecting /\ flow.input.client_ok /\ IsRaise(flow.input.info)) =>
          /\ flow.result = Abort("unable_to_get_info")
          /\ flow.step = "done"
          /\ entries = << >>
    /\ NoRepeatedCall

\* C12: a connectivity failure creates no config entry and is not retried: the
\* user step shows the form again with base_url = "cannot_connect", and the
\* discovery step aborts with "cannot_connect" or "unable_to_get_info" without
\* reaching the confirm step.
C12_ConnectFailureNoEntry ==
    /\ []FailureSurfaced
    /\ [][(UserConnectFailed' \/ (DiscoveryConnecting' /\ flow'.result.type = "abort"))
              => entries' = entries]_vars

\* A submitted https URL whose request failed: the form is shown again after
\* the one attempt.
C12_Witness ==
    /\ flow.handler = SunControl
    /\ UserConnectFailed
    /\ UrlScheme(flow.input.user_input.base_url) = Https
    /\ Len(flow.calls) = 1
    /\ flow.result = ShowForm("user", CannotConnect)

\* A discovery whose get_info call failed.
C12_WitnessDiscovery ==
    /\ DiscoveryConnecting
    /\ flow.input.client_ok
    /\ IsRaise(flow.input.info)
    /\ flow.result = Abort("unable_to_get_info")

\* C15: the user step of duco_ventilation_sun_control accepts only https
\* URLs: for a base_url of any other scheme it makes no connection attempt,
\* creates no entry and shows the form again with "cannot_connect".
C15_OnlyHttpsAccepted ==
    (/\ flow.handler = SunControl
     /\ UserSubmitted
     /\ UrlScheme(flow.input.user_input.base_url) # Https) =>
        /\ flow.calls = << >>
        /\ entries = << >>
        /\ flow.result = ShowForm("user", CannotConnect)

\* C16: in the discovery flow an entry is created only by the confirm step
\* with user input, and a confirmation after a successful discovery always
\* ends with a created entry, whatever the board type reported.
C16_ConfirmAlwaysCreates ==
    flow.source = "zeroconf" =>
        /\ entries # << >> => flow.input.kind = "confirm"
        /\ flow.input.kind = "confirm" =>
              /\ flow.result.type = "create_entry"
              /\ Len(entries) = 1

====
